---- MODULE Spec2Model ----
(***************************************************************************)
(* A model of generate_calendar.py: the colour shade generator, the        *)
(* document assembler (create_calendar_pdf), the navigation tab renderer   *)
(* and the calendar grid renderer.                                         *)
(*                                                                         *)
(* Python floats are IEEE-754 binary64.  generate_month_shades computes    *)
(* its brightness factor and the scaled channels in floats and truncates,  *)
(* so the model carries binary64 arithmetic (round to nearest, ties to     *)
(* even) on multi-limb naturals: a double is [m, e] with value m * 2^e and *)
(* 2^52 <= m < 2^53, or m = <<>> for 0.0.                                  *)
(***************************************************************************)
EXTENDS Integers, Sequences, FiniteSets, TLC

Max2(a, b) == IF a >= b THEN a ELSE b
Min2(a, b) == IF a <= b THEN a ELSE b

(***************************************************************************)
(* Multi-limb naturals: little-endian sequences of limbs below Base, with  *)
(* no zero top limb; <<>> is 0.                                            *)
(***************************************************************************)
LimbBits == 14
Base == 2 ^ LimbBits
MantBits == 53

RECURSIVE Strip(_)
Strip(a) == IF a = <<>> \/ a[Len(a)] # 0 THEN a ELSE Strip(SubSeq(a, 1, Len(a) - 1))

RECURSIVE BigOfInt(_)
BigOfInt(n) == IF n = 0 THEN <<>> ELSE <<n % Base>> \o BigOfInt(n \div Base)

RECURSIVE IntOfBig(_)
IntOfBig(a) == IF a = <<>> THEN 0 ELSE a[1] + Base * IntOfBig(Tail(a))

Limb(a, k) == IF k >= 1 /\ k <= Len(a) THEN a[k] ELSE 0

RECURSIVE Carry(_, _)
Carry(cols, c) ==
    IF cols = <<>> THEN BigOfInt(c)
    ELSE LET s == Head(cols) + c
         IN  <<s % Base>> \o Carry(Tail(cols), s \div Base)

BigAdd(a, b) ==
    Strip(Carry([k \in 1..Max2(Len(a), Len(b)) |-> Limb(a, k) + Limb(b, k)], 0))

RECURSIVE ColSum(_, _, _, _)
ColSum(a, b, k, i) ==
    IF i > Min2(Len(a), k) THEN 0
    ELSE a[i] * Limb(b, k + 1 - i) + ColSum(a, b, k, i + 1)

BigMul(a, b) ==
    IF a = <<>> \/ b = <<>> THEN <<>>
    ELSE Strip(Carry([k \in 1..(Len(a) + Len(b) - 1) |-> ColSum(a, b, k, 1)], 0))

RECURSIVE DivRec(_, _, _, _)
DivRec(a, d, k, r) ==
    IF k = 0 THEN [q |-> <<>>, r |-> r]
    ELSE LET cur  == r * Base + a[k]
             rest == DivRec(a, d, k - 1, cur % d)
         IN  [q |-> rest.q \o <<cur \div d>>, r |-> rest.r]

BigDivSmall(a, d) ==
    LET res == DivRec(a, d, Len(a), 0) IN [q |-> Strip(res.q), r |-> res.r]

ShiftLeft(a, s) ==
    IF a = <<>> THEN <<>>
    ELSE [k \in 1..(s \div LimbBits) |-> 0] \o BigMul(a, <<2 ^ (s % LimbBits)>>)

ShiftRight(a, s) ==
    LET drop == s \div LimbBits
    IN  IF drop >= Len(a) THEN <<>>
        ELSE BigDivSmall(SubSeq(a, drop + 1, Len(a)), 2 ^ (s % LimbBits)).q

RECURSIVE BitLenInt(_)
BitLenInt(n) == IF n = 0 THEN 0 ELSE 1 + BitLenInt(n \div 2)

BitLen(a) == IF a = <<>> THEN 0 ELSE (Len(a) - 1) * LimbBits + BitLenInt(a[Len(a)])

IsOdd(a) == a # <<>> /\ a[1] % 2 = 1

(***************************************************************************)
(* binary64.  RoundToDouble(M, E, sticky) is the double nearest to the     *)
(* real (M + d) * 2^E, where 0 <= d < 1 and sticky says d > 0; ties go to  *)
(* the even mantissa.  A sticky M is always longer than the mantissa.      *)
(***************************************************************************)
FZero == [m |-> <<>>, e |-> 0]

RoundToDouble(M, E, sticky) ==
    LET L == BitLen(M)
    IN  IF M = <<>> THEN FZero
        ELSE IF L <= MantBits
        THEN [m |-> ShiftLeft(M, MantBits - L), e |-> E - (MantBits - L)]
        ELSE LET s     == L - MantBits
                 t     == ShiftRight(M, s - 1)
                 q     == ShiftRight(t, 1)
                 low   == sticky \/ ShiftLeft(t, s - 1) # M
                 up    == IsOdd(t) /\ (low \/ IsOdd(q))
                 q1    == IF up THEN BigAdd(q, <<1>>) ELSE q
             IN  IF BitLen(q1) > MantBits
                 THEN [m |-> ShiftRight(q1, 1), e |-> E + s + 1]
                 ELSE [m |-> q1, e |-> E + s]

\* float(n) for a small natural n: exact
FOfInt(n) == RoundToDouble(BigOfInt(n), 0, FALSE)

\* a / b on Python ints (true division): the correctly rounded quotient
DivPrec == 75
FDivInt(a, b) ==
    LET d == BigDivSmall(ShiftLeft(BigOfInt(a), DivPrec), b)
    IN  RoundToDouble(d.q, 0 - DivPrec, d.r # 0)

FMul(x, y) == RoundToDouble(BigMul(x.m, y.m), x.e + y.e, FALSE)

FAdd(x, y) ==
    IF x.m = <<>> THEN y
    ELSE IF y.m = <<>> THEN x
    ELSE LET e == Min2(x.e, y.e)
         IN  RoundToDouble(BigAdd(ShiftLeft(x.m, x.e - e), ShiftLeft(y.m, y.e - e)),
                           e, FALSE)

\* int(x) for a non-negative double below 2^31: truncation
FTrunc(x) ==
    IF x.m = <<>> THEN 0
    ELSE IF x.e >= 0 THEN IntOfBig(ShiftLeft(x.m, x.e))
    ELSE IntOfBig(ShiftRight(x.m, 0 - x.e))

(***************************************************************************)
(* Colours.  A colour is the triple of bytes its hex text '#rrggbb' holds. *)
(* HexColor keeps each byte v as the float v / 255.0, and hexval() reads   *)
(* it back as int(x * 255) & 255; HexChannel is that round trip.           *)
(***************************************************************************)
CHANNEL_MIN == 30
CHANNEL_MAX == 255

HexChannel(v) == FTrunc(FMul(FDivInt(v, CHANNEL_MAX), FOfInt(CHANNEL_MAX))) % (CHANNEL_MAX + 1)

\* factor = 0.5 + (i / (num_shades - 1)) * 1.1
ShadeFactor(i, num_shades) ==
    FAdd(FDivInt(1, 2), FMul(FDivInt(i, num_shades - 1), FDivInt(11, 10)))

\* the clamp without its lower bound
ShadeChannel_NoFloor(ch, factor) ==
    Min2(CHANNEL_MAX, FTrunc(FMul(FOfInt(ch), factor)))

\* min(255, max(30, int(ch * factor)))
ShadeChannel(ch, factor) ==
    Min2(CHANNEL_MAX, Max2(CHANNEL_MIN, FTrunc(FMul(FOfInt(ch), factor))))

\* one iteration of the loop body
Shade(base_color, i, num_shades) ==
    LET factor == ShadeFactor(i, num_shades)
    IN  [c \in 1..3 |-> ShadeChannel(HexChannel(base_color[c]), factor)]

\* generate_month_shades: the list of shades, or the ZeroDivisionError that
\* i / (num_shades - 1) raises in the first iteration when num_shades = 1
generate_month_shades(base_color, num_shades) ==
    IF num_shades = 1
    THEN [status |-> "ZeroDivisionError", shades |-> <<>>]
    ELSE [status |-> "ok",
          shades |-> [i \in 1..num_shades |-> Shade(base_color, i - 1, num_shades)]]

(***************************************************************************)
(* Configuration.  The source fixes YEARS = [2020 .. 2024]; the model also *)
(* runs every other ascending run of consecutive years from FIRST_YEAR on, *)
(* up to MaxYears entries, as the configured list.                         *)
(***************************************************************************)
FIRST_YEAR == 2020
MaxYears == 5
MaxShades == 12
DEFAULT_NUM_SHADES == 12

YearLists ==
    { [i \in 1..k |-> y + i - 1] :
        <<y, k>> \in { c \in (FIRST_YEAR..(FIRST_YEAR + MaxYears - 1)) \X (0..MaxYears) :
                         c[1] + c[2] - 1 <= FIRST_YEAR + MaxYears - 1 } }

MONTHS == [i \in 1..12 |-> i]

YEAR_BASE_COLORS ==
    << <<139, 69, 102>>,     \* #8B4566
       <<168, 118, 50>>,     \* #A87632
       <<139, 139, 58>>,     \* #8B8B3A
       <<90, 122, 106>>,     \* #5A7A6A
       <<90, 106, 139>> >>   \* #5A6A8B

PAGE_HEIGHT == 792
total_tabs == 17
MONTH_TAB_OFFSET == 5
GRID_ROWS == 6

(***************************************************************************)
(* Destination names: f"page_{year}_{month}", as a sequence of characters. *)
(***************************************************************************)
DigitChar(d) == <<"0", "1", "2", "3", "4", "5", "6", "7", "8", "9">>[d + 1]

RECURSIVE Str(_)
Str(n) == IF n < 10 THEN <<DigitChar(n)>> ELSE Str(n \div 10) \o <<DigitChar(n % 10)>>

\* a name that leaves the month out
DestName_YearOnly(year, month) ==
    <<"p", "a", "g", "e", "_">> \o Str(year)

DestName(year, month) ==
    <<"p", "a", "g", "e", "_">> \o Str(year) \o <<"_">> \o Str(month)

(***************************************************************************)
(* Python's calendar module, as draw_calendar_grid uses it:                *)
(* Calendar(firstweekday=SUNDAY).monthdayscalendar(year, month).           *)
(***************************************************************************)
firstweekday == 6

isleap(year) == year % 4 = 0 /\ (year % 100 # 0 \/ year % 400 = 0)

mdays == <<31, 28, 31, 30, 31, 30, 31, 31, 30, 31, 30, 31>>

days_before_year(year) ==
    LET y == year - 1 IN y * 365 + y \div 4 - y \div 100 + y \div 400

RECURSIVE days_before_month(_, _)
days_before_month(year, month) ==
    IF month = 1 THEN 0
    ELSE days_before_month(year, month - 1) + mdays[month - 1]
         + (IF month - 1 = 2 /\ isleap(year) THEN 1 ELSE 0)

\* isoweekday() in place of weekday(): Monday is 1
weekday_Iso(year, month, day) ==
    ((days_before_year(year) + days_before_month(year, month) + day + 6) % 7) + 1

\* datetime.date(year, month, day).weekday(): Monday is 0
weekday(year, month, day) ==
    (days_before_year(year) + days_before_month(year, month) + day + 6) % 7

\* monthrange(year, month)[1]
ndays(year, month) == mdays[month] + (IF month = 2 /\ isleap(year) THEN 1 ELSE 0)

\* itermonthdays: zeros before the 1st, the days, zeros to the end of the week
itermonthdays(year, month) ==
    LET day1        == weekday(year, month, 1)
        n           == ndays(year, month)
        days_before == (day1 - firstweekday) % 7
        days_after  == (firstweekday - day1 - n) % 7
    IN  [i \in 1..days_before |-> 0] \o [d \in 1..n |-> d] \o [i \in 1..days_after |-> 0]

\* monthdayscalendar: the days cut into weeks of 7
monthdayscalendar(year, month) ==
    LET days == itermonthdays(year, month)
    IN  [w \in 1..(Len(days) \div 7) |-> SubSeq(days, 7 * (w - 1) + 1, 7 * w)]

day_names == <<"SUN", "MON", "TUE", "WED", "THU", "FRI", "SAT">>

(***************************************************************************)
(* draw_calendar_grid: the header labels and, in drawing order, one cell   *)
(* per day slot of every week the calendar returns; day 0 is a bordered    *)
(* cell with no number.  row_height divides the grid area by GRID_ROWS.    *)
(***************************************************************************)
RECURSIVE Flatten(_)
Flatten(ss) == IF ss = <<>> THEN <<>> ELSE Head(ss) \o Flatten(Tail(ss))

draw_calendar_grid(year, month) ==
    LET cal == monthdayscalendar(year, month)
    IN  [header   |-> day_names,
         row_slots |-> GRID_ROWS,
         cells    |-> Flatten([w \in 1..Len(cal) |->
                          [d \in 1..7 |-> [week_num |-> w - 1, day_num |-> d - 1,
                                           day |-> cal[w][d]]]])]

(***************************************************************************)
(* draw_navigation_tabs: the tabs in drawing order, each with the link     *)
(* rectangle linkRect puts on it.  Edges are exact rationals over the      *)
(* denominator den = total_tabs: y_pos = y_num / den is the bottom edge    *)
(* and h_num / den the height.  Fill colours and labels are left out.      *)
(***************************************************************************)
TabRect(tab_index) ==
    [y_num |-> PAGE_HEIGHT * total_tabs - (tab_index + 1) * PAGE_HEIGHT,
     h_num |-> PAGE_HEIGHT,
     den   |-> total_tabs]

\* line 222: dest = page_destinations[(yr, 1)]
YearTabDest(yr, page_destinations) == page_destinations[<<yr, 1>>]

\* a month tab that uses yr, left over from the year loop, for the page's year
MonthTabDest_StaleYear(years, mn, year, page_destinations) ==
    page_destinations[<<years[Len(years)], mn>>]

\* line 261: dest = page_destinations[(year, mn)]
MonthTabDest(years, mn, year, page_destinations) == page_destinations[<<year, mn>>]

draw_navigation_tabs(years, year, month, page_destinations) ==
    [idx \in 1..Len(years) |->
        [kind |-> "year", of |-> years[idx], rect |-> TabRect(idx - 1),
         dest |-> YearTabDest(years[idx], page_destinations)]]
    \o
    [idx \in 1..Len(MONTHS) |->
        [kind |-> "month", of |-> MONTHS[idx], rect |-> TabRect(MONTH_TAB_OFFSET + idx - 1),
         dest |-> MonthTabDest(years, MONTHS[idx], year, page_destinations)]]

\* a bookmark named after the year's first page only
BookmarkName_January(year, month, page_destinations) == page_destinations[<<year, 1>>]

\* the name draw_month_page hands to c.bookmarkPage
BookmarkName(year, month, page_destinations) == page_destinations[<<year, month>>]

draw_month_page(years, year, month, page_destinations) ==
    [kind      |-> "month",
     year      |-> year,
     month     |-> month,
     bookmarks |-> <<BookmarkName(year, month, page_destinations)>>,
     tabs      |-> draw_navigation_tabs(years, year, month, page_destinations),
     grid      |-> draw_calendar_grid(year, month)]

draw_cover_page ==
    [kind |-> "cover", year |-> 0, month |-> 0, bookmarks |-> <<>>, tabs |-> <<>>,
     grid |-> [header |-> <<>>, row_slots |-> 0, cells |-> <<>>]]

\* the loops nested the other way round: months outside, years inside
LoopPair_MonthMajor(years, n) == <<years[(n % Len(years)) + 1], MONTHS[n \div Len(years) + 1]>>

\* the n-th (n = 0, 1, ...) pair of "for year in YEARS: for month in MONTHS"
LoopPair(years, n) == <<years[n \div Len(MONTHS) + 1], MONTHS[(n % Len(MONTHS)) + 1]>>

LoopTotal(years) == Len(years) * Len(MONTHS)

\* a counter that is never advanced
NextPageIndex_Stuck(index) == index

\* page_index += 1
NextPageIndex(index) == index + 1

(***************************************************************************)
(* State.  The program: the module body (import), then create_calendar_pdf.*)
(* pages holds what showPage has emitted, in order.  The fn_ variables     *)
(* are one call of generate_month_shades on arbitrary arguments.           *)
(***************************************************************************)
VARIABLES pc, YEARS, YEAR_MONTH_COLORS, page_destinations, page_index, pages, n,
          fn_pc, fn_base_color, fn_num_shades, fn_result

vars == <<pc, YEARS, YEAR_MONTH_COLORS, page_destinations, page_index, pages, n,
          fn_pc, fn_base_color, fn_num_shades, fn_result>>

progVars == <<pc, YEARS, YEAR_MONTH_COLORS, page_destinations, page_index, pages, n>>
fnVars   == <<fn_pc, fn_base_color, fn_num_shades, fn_result>>

NoResult == [status |-> "none", shades |-> <<>>]

Init ==
    /\ pc = "import"
    /\ YEARS \in YearLists
    /\ YEAR_MONTH_COLORS = <<>>
    /\ page_destinations = <<>>
    /\ page_index = 0
    /\ pages = <<>>
    /\ n = 0
    /\ fn_pc = "idle"
    /\ fn_base_color = <<0, 0, 0>>
    /\ fn_num_shades = 0
    /\ fn_result = NoResult

\* lines 65-67: YEAR_MONTH_COLORS[year] = generate_month_shades(YEAR_BASE_COLORS[idx]);
\* YEAR_BASE_COLORS[idx] raises IndexError past the last base colour
ImportModule ==
    /\ pc = "import"
    /\ LET done == Min2(Len(YEARS), Len(YEAR_BASE_COLORS))
       IN  /\ YEAR_MONTH_COLORS' =
                [y \in {YEARS[i] : i \in 1..done} |->
                    generate_month_shades(
                        YEAR_BASE_COLORS[CHOOSE i \in 1..done : YEARS[i] = y],
                        DEFAULT_NUM_SHADES).shades]
           /\ pc' = IF Len(YEARS) > Len(YEAR_BASE_COLORS) THEN "crashed" ELSE "main"
    /\ UNCHANGED <<YEARS, page_destinations, page_index, pages, n, fnVars>>

\* lines 73-77
CreateCanvas ==
    /\ pc = "main"
    /\ pc' = "register"
    /\ page_index' = 0
    /\ page_destinations' = <<>>
    /\ n' = 0
    /\ UNCHANGED <<YEARS, YEAR_MONTH_COLORS, pages, fnVars>>

\* lines 80-83, one iteration
RegisterDestination ==
    /\ pc = "register"
    /\ n < LoopTotal(YEARS)
    /\ LET key == LoopPair(YEARS, n)
           dest_name == DestName(key[1], key[2])
       IN  page_destinations' =
              [k \in DOMAIN page_destinations \cup {key} |->
                  IF k = key THEN dest_name ELSE page_destinations[k]]
    /\ n' = n + 1
    /\ UNCHANGED <<pc, YEARS, YEAR_MONTH_COLORS, page_index, pages, fnVars>>

\* lines 86-88, after the registration loop has run out
DrawCover ==
    /\ pc = "register"
    /\ n = LoopTotal(YEARS)
    /\ pages' = Append(pages, draw_cover_page)
    /\ page_index' = NextPageIndex(page_index)
    /\ pc' = "months"
    /\ n' = 0
    /\ UNCHANGED <<YEARS, YEAR_MONTH_COLORS, page_destinations, fnVars>>

\* lines 91-95, one iteration
DrawMonthPage ==
    /\ pc = "months"
    /\ n < LoopTotal(YEARS)
    /\ LET key == LoopPair(YEARS, n)
       IN  pages' = Append(pages, draw_month_page(YEARS, key[1], key[2], page_destinations))
    /\ page_index' = NextPageIndex(page_index)
    /\ n' = n + 1
    /\ UNCHANGED <<pc, YEARS, YEAR_MONTH_COLORS, page_destinations, fnVars>>

\* lines 97-99, after the page loop has run out
Save ==
    /\ pc = "months"
    /\ n = LoopTotal(YEARS)
    /\ pc' = "done"
    /\ UNCHANGED <<YEARS, YEAR_MONTH_COLORS, page_destinations, page_index, pages, n, fnVars>>

Next ==
    \/ ImportModule
    \/ CreateCanvas
    \/ RegisterDestination
    \/ DrawCover
    \/ DrawMonthPage
    \/ Save

Spec == Init /\ [][Next]_vars

(***************************************************************************)
(* generate_month_shades as a function of its arguments: any base colour   *)
(* of FnColors (every channel value 0..255 occurs) and any count up to     *)
(* MaxShades.                                                              *)
(***************************************************************************)
FnColors ==
    { <<v, (v + 86) % (CHANNEL_MAX + 1), (v + 172) % (CHANNEL_MAX + 1)>> : v \in 0..85 }
    \cup { YEAR_BASE_COLORS[i] : i \in 1..Len(YEAR_BASE_COLORS) }

FnInit ==
    /\ pc = "idle"
    /\ YEARS = <<>>
    /\ YEAR_MONTH_COLORS = <<>>
    /\ page_destinations = <<>>
    /\ page_index = 0
    /\ pages = <<>>
    /\ n = 0
    /\ fn_pc = "call"
    /\ fn_base_color \in FnColors
    /\ fn_num_shades \in 0..MaxShades
    /\ fn_result = NoResult

FnCall ==
    /\ fn_pc = "call"
    /\ fn_result' = generate_month_shades(fn_base_color, fn_num_shades)
    /\ fn_pc' = "returned"
    /\ UNCHANGED <<progVars, fn_base_color, fn_num_shades>>

FnNext == FnCall

FnSpec == FnInit /\ [][FnNext]_vars

(***************************************************************************)
(* Reference definitions the properties are stated with: none of them is   *)
(* used by the model of the program above.                                 *)
(***************************************************************************)
AllPairs(years) == { <<years[i], m>> : i \in 1..Len(years), m \in 1..12 }

Injective(f) == \A a, b \in DOMAIN f : f[a] = f[b] => a = b

PairLess(a, b) == a[1] < b[1] \/ (a[1] = b[1] /\ a[2] < b[2])

MonthPages == { j \in 1..Len(pages) : pages[j].kind = "month" }

LastPage == pages[Len(pages)]

HasMonthPage == pages # <<>> /\ LastPage.kind = "month"

\* the pages on which name is bookmarked
BookmarkedOn(name) ==
    { j \in 1..Len(pages) : \E b \in 1..Len(pages[j].bookmarks) : pages[j].bookmarks[b] = name }

RefLeap(year) == (year % 4 = 0 /\ year % 100 # 0) \/ year % 400 = 0

RefDays(year, month) ==
    IF month = 2 THEN (IF RefLeap(year) THEN 29 ELSE 28)
    ELSE IF month \in {4, 6, 9, 11} THEN 30 ELSE 31

\* Zeller's congruence (0 = Saturday), turned into the offset from Sunday
RefSundayOffset(year, month, day) ==
    LET mm == IF month < 3 THEN month + 12 ELSE month
        yy == IF month < 3 THEN year - 1 ELSE year
        K  == yy % 100
        J  == yy \div 100
        h  == (day + (13 * (mm + 1)) \div 5 + K + K \div 4 + J \div 4 + 5 * J) % 7
    IN  (h + 6) % 7

RefDayName(offset) == <<"SUN", "MON", "TUE", "WED", "THU", "FRI", "SAT">>[offset + 1]

Clamp(v) == IF v < 30 THEN 30 ELSE IF v > 255 THEN 255 ELSE v

\* ch * (0.5 + (i / (N-1)) * 1.1) in exact arithmetic, as a fraction
ExactNum(ch, i, N) == ch * (5 * (N - 1) + 11 * i)
ExactDen(N) == 10 * (N - 1)

(***************************************************************************)
(* C1.  Every (year, month) pair of the configured years has a destination *)
(* identifier in page_destinations before anything is drawn (so before the *)
(* first draw_navigation_tabs), the mapping is injective at every moment,  *)
(* every tab drawn references a registered identifier, and no step that    *)
(* follows the first drawing step changes the registry.                    *)
(***************************************************************************)
C1_Step ==
    /\ Injective(page_destinations')
    /\ pages' # pages =>
          /\ DOMAIN page_destinations = AllPairs(YEARS)
          /\ page_destinations' = page_destinations
    /\ pages # <<>> => page_destinations' = page_destinations
    /\ \A j \in 1..Len(pages') : \A t \in 1..Len(pages'[j].tabs) :
          \E k \in DOMAIN page_destinations : page_destinations[k] = pages'[j].tabs[t].dest

C1_DestinationRegistry == [][C1_Step]_vars

C1_Witness == HasMonthPage /\ Len(YEARS) >= 2 /\ Cardinality(DOMAIN page_destinations) >= 24

(***************************************************************************)
(* C2.  On the month page of (year, month) the tabs are one year tab per   *)
(* configured year, linking to the destination of (yr, 1), followed by one *)
(* month tab per month, linking to the destination of (year, mn) for the   *)
(* page's own year; there is no other link.  Stated of the page emitted    *)
(* last, which every page is in the state after its DrawMonthPage.         *)
(***************************************************************************)
C2_TabTargets ==
    HasMonthPage =>
        LET p == LastPage
            k == Len(YEARS)
        IN  /\ Len(p.tabs) = k + 12
            /\ \A j \in 1..k :
                  /\ p.tabs[j].kind = "year"
                  /\ p.tabs[j].of = YEARS[j]
                  /\ p.tabs[j].dest = DestName(YEARS[j], 1)
            /\ \A mn \in 1..12 :
                  /\ p.tabs[k + mn].kind = "month"
                  /\ p.tabs[k + mn].of = mn
                  /\ p.tabs[k + mn].dest = DestName(p.year, mn)

C2_Witness ==
    /\ HasMonthPage
    /\ Len(YEARS) >= 2
    /\ LastPage.year = YEARS[2]
    /\ LastPage.month = 7

(***************************************************************************)
(* C3.  When the document is saved, every destination a tab links to is    *)
(* bookmarked on exactly one page, the page of the (year, month) the tab   *)
(* stands for, and every registered destination is bookmarked exactly once,*)
(* on the page drawn for its own pair.                                      *)
(***************************************************************************)
C3_NoDanglingLink ==
    pc = "done" =>
        /\ \A key \in DOMAIN page_destinations :
              \E j \in MonthPages :
                  /\ BookmarkedOn(page_destinations[key]) = {j}
                  /\ Len(SelectSeq(pages[j].bookmarks,
                                   LAMBDA b : b = page_destinations[key])) = 1
                  /\ <<pages[j].year, pages[j].month>> = key
        /\ \A i \in MonthPages : \A t \in 1..Len(pages[i].tabs) :
              LET tab    == pages[i].tabs[t]
                  target == IF tab.kind = "year" THEN <<tab.of, 1>>
                            ELSE <<pages[i].year, tab.of>>
              IN  \E j \in MonthPages :
                      /\ BookmarkedOn(tab.dest) = {j}
                      /\ <<pages[j].year, pages[j].month>> = target

\* saved, with a tab on an earlier page linking forward to a later page
C3_Witness ==
    /\ pc = "done"
    /\ Len(YEARS) >= 2
    /\ \E i, j \in MonthPages :
          /\ i < j
          /\ \E t \in 1..Len(pages[i].tabs) : j \in BookmarkedOn(pages[i].tabs[t].dest)

(***************************************************************************)
(* C4.  The assembler moves Empty -> DestinationsRegistered -> PagesDrawn  *)
(* -> Finalized and never back.  Pages are only appended, and only once    *)
(* every destination is registered; page 1 is the cover; page j + 1 is the *)
(* month page of the j-th pair in ascending (year, month) order; the       *)
(* document is saved once, after the page of the last pair, when every     *)
(* pair has exactly one page.                                               *)
(***************************************************************************)
AssemblerRank ==
    CASE pc = "register" /\ Cardinality(DOMAIN page_destinations) < 12 * Len(YEARS) -> 1
      [] pc = "register" -> 2
      [] pc = "months" /\ Len(pages) < 1 + 12 * Len(YEARS) -> 2
      [] pc = "months" -> 3
      [] pc = "done" -> 4
      [] OTHER -> 0

PagesInOrder ==
    /\ pages # <<>> => pages[1].kind = "cover"
    /\ \A j \in 2..Len(pages) :
          /\ pages[j].kind = "month"
          /\ pages[j].year = YEARS[(j - 2) \div 12 + 1]
          /\ pages[j].month = ((j - 2) % 12) + 1
    /\ \A i, j \in MonthPages :
          i < j <=> PairLess(<<pages[i].year, pages[i].month>>,
                             <<pages[j].year, pages[j].month>>)

C4_Step ==
    /\ AssemblerRank' >= AssemblerRank
    /\ pages' # pages =>
          /\ DOMAIN page_destinations = AllPairs(YEARS)
          /\ Len(pages') = Len(pages) + 1
          /\ SubSeq(pages', 1, Len(pages)) = pages
          /\ pc' # "done"
    /\ PagesInOrder'
    /\ pc' = "done" =>
          /\ pc = "months"
          /\ pages' = pages
          /\ Len(pages) = 1 + 12 * Len(YEARS)
          /\ \A key \in AllPairs(YEARS) :
                Cardinality({ j \in MonthPages : <<pages[j].year, pages[j].month>> = key }) = 1

C4_LinearAssembly == [][C4_Step]_vars

C4_Witness == pc = "done" /\ Len(YEARS) >= 2 /\ Len(pages) >= 25

(***************************************************************************)
(* C5.  The saved document has 1 cover page and 12 month pages per         *)
(* configured year (13 pages for one year, 25 for two), and page_index,    *)
(* the total the program reports, is the number of pages emitted.          *)
(***************************************************************************)
C5_PageCount ==
    pc = "done" =>
        /\ Len(pages) = 1 + 12 * Len(YEARS)
        /\ Cardinality({ j \in 1..Len(pages) : pages[j].kind = "cover" }) = 1
        /\ Cardinality(MonthPages) = 12 * Len(YEARS)
        /\ page_index = Len(pages)
        /\ Len(YEARS) = 1 => page_index = 13
        /\ Len(YEARS) = 2 => page_index = 25

C5_Witness == pc = "done" /\ YEARS = <<2020, 2021>> /\ page_index = 25

(***************************************************************************)
(* C6.  The grid drawn on every month page has exactly 42 cells, in 6 rows *)
(* of 7: six week rows whatever the number of weeks the month spans.       *)
(* Stated of the page emitted last.                                         *)
(***************************************************************************)
C6_FortyTwoCells ==
    HasMonthPage =>
        LET cells == LastPage.grid.cells
        IN  /\ Len(cells) = 42
            /\ { cells[i].week_num : i \in 1..Len(cells) } = 0..5
            /\ \A r \in 0..5 :
                  { cells[i].day_num : i \in { x \in 1..Len(cells) : cells[x].week_num = r } }
                      = 0..6

(***************************************************************************)
(* C7.  On every month page the cells that carry a number are as many as   *)
(* the month has days (February 29 in leap years only), they carry 1..D    *)
(* once each in drawing order, which runs left to right and top to bottom, *)
(* and the cell of day d is in the column of that date's weekday counted   *)
(* from Sunday, under the header label of that weekday.  Stated of the     *)
(* page emitted last.                                                       *)
(***************************************************************************)
C7_DaysInGrid ==
    HasMonthPage =>
        LET p     == LastPage
            cells == p.grid.cells
            nz    == SelectSeq(cells, LAMBDA c : c.day # 0)
        IN  /\ Len(nz) = RefDays(p.year, p.month)
            /\ \A i \in 1..Len(cells) : cells[i].week_num * 7 + cells[i].day_num = i - 1
            /\ \A d \in 1..Len(nz) :
                  /\ nz[d].day = d
                  /\ nz[d].day_num = RefSundayOffset(p.year, p.month, d)
                  /\ p.grid.header[nz[d].day_num + 1] = RefDayName(RefSundayOffset(p.year, p.month, d))

\* February of a leap year, with the 29th drawn in Saturday's column (2020-02-29)
C7_Witness ==
    /\ HasMonthPage
    /\ LastPage.year = 2020
    /\ LastPage.month = 2
    /\ \E i \in 1..Len(LastPage.grid.cells) :
          LastPage.grid.cells[i].day = 29 /\ LastPage.grid.cells[i].day_num = 6

(***************************************************************************)
(* C9.  On every month page the tab height is page height / (number of    *)
(* configured years + 12) and the tabs are one contiguous stack: the first *)
(* year tab starts at the page top, each tab ends where the next begins,   *)
(* and the last month tab ends at the page bottom.  Stated of the page     *)
(* emitted last, in exact arithmetic.                                       *)
(***************************************************************************)
C9_ContiguousTabs ==
    HasMonthPage =>
        LET tabs == LastPage.tabs
            k    == Len(YEARS)
            Top(t)    == t.rect.y_num + t.rect.h_num
            Bottom(t) == t.rect.y_num
        IN  /\ \A j \in 1..Len(tabs) : tabs[j].rect.h_num * (k + 12) = PAGE_HEIGHT * tabs[j].rect.den
            /\ Top(tabs[1]) = PAGE_HEIGHT * tabs[1].rect.den
            /\ \A j \in 1..(Len(tabs) - 1) :
                  Bottom(tabs[j]) * tabs[j + 1].rect.den = Top(tabs[j + 1]) * tabs[j].rect.den
            /\ Bottom(tabs[Len(tabs)]) = 0

(***************************************************************************)
(* C8.  generate_month_shades with N = 1 does not divide by zero: it       *)
(* returns one shade, the base colour (factor 1.0) clamped to [30, 255].   *)
(***************************************************************************)
C8_SingleShade ==
    (fn_pc = "returned" /\ fn_num_shades = 1) =>
        /\ fn_result.status = "ok"
        /\ Len(fn_result.shades) = 1
        /\ \A c \in 1..3 : fn_result.shades[1][c] = Clamp(fn_base_color[c])

(***************************************************************************)
(* C10.  For N >= 2 generate_month_shades returns N shades, every channel  *)
(* of every shade in [30, 255]; shade 0 is the base channel times 0.5 and  *)
(* shade N-1 the base channel times 1.6, truncated and clamped; shade i is *)
(* the base channel times 0.5 + (i/(N-1))*1.1, truncated and clamped,      *)
(* where the truncated binary64 product is the floor of the exact product, *)
(* or, only when the exact product is an integer, possibly one below it.   *)
(***************************************************************************)
C10_Shades ==
    (fn_pc = "returned" /\ fn_num_shades >= 2) =>
        /\ fn_result.status = "ok"
        /\ Len(fn_result.shades) = fn_num_shades
        /\ \A i \in 1..fn_num_shades : \A c \in 1..3 :
              LET v   == fn_result.shades[i][c]
                  num == ExactNum(fn_base_color[c], i - 1, fn_num_shades)
                  den == ExactDen(fn_num_shades)
              IN  /\ v \in 30..255
                  /\ num % den # 0 => v = Clamp(num \div den)
                  /\ num % den = 0 => v \in {Clamp(num \div den), Clamp(num \div den - 1)}
                  /\ i = 1 => v = Clamp(fn_base_color[c] \div 2)
                  /\ i = fn_num_shades => v = Clamp((fn_base_color[c] * 8) \div 5)

\* twelve shades of #5A7A6A: MAR's red channel is int(90 * 0.7) = 62 in binary64
C10_Witness ==
    /\ fn_pc = "returned"
    /\ fn_num_shades = 12
    /\ fn_base_color = <<90, 122, 106>>
    /\ fn_result.status = "ok"
    /\ fn_result.shades[3][1] = 62
    /\ fn_result.shades[1] = <<45, 61, 53>>
    /\ fn_result.shades[12] = <<144, 195, 169>>

====
